---------------------------- MODULE Spec2Model ----------------------------
(***************************************************************************)
(* Model of the Silky .arc archive tool (src/src/lib.rs): the name cipher, *)
(* the binary layout, handle_pack and handle_unpack.                       *)
(*                                                                         *)
(* Data and name bytes are 0..255 and byte arithmetic wraps mod 256.  The  *)
(* integer casts of lengths, positions and offsets are kept at reduced     *)
(* widths so that they can wrap on inputs small enough to enumerate: a     *)
(* length or position cast `as u8` is a value mod U8Mod and every u32 of   *)
(* the code is a value mod U32Mod.  A u8 field still occupies one byte and *)
(* a u32 field four bytes of the archive.                                  *)
(***************************************************************************)
EXTENDS Integers, Sequences, FiniteSets, TLC

\* ------------------------------------------------------------------ bounds

U8Bits == 3
U32Bits == 6
MaxFiles == 2
TruncMax == 40
MaxWorkers == 3

\* ------------------------------------------------------------ basic helpers

U32Mod == 2 ^ U32Bits

AsU32(n) == n % U32Mod

U8Mod == 2 ^ U8Bits

AsU8(n) == n % U8Mod

Min(a, b) == IF a < b THEN a ELSE b

Max(a, b) == IF a > b THEN a ELSE b

RECURSIVE Concat(_)
Concat(ss) == IF ss = << >> THEN << >> ELSE Head(ss) \o Concat(Tail(ss))

\* Rust's `vec![x; n]`.
Repeat(x, n) == [i \in 1..n |-> x]

\* ------------------------------------------------- legacy charset (SHIFT_JIS)
\* Strings are sequences of Unicode code points.  The code points the model
\* uses, with the bytes encoding_rs's SHIFT_JIS encoder gives them.

\* U+005C and U+002F; the other code points are written out where they occur:
\* U+00A5 yen sign, U+203E overline, U+2212 minus sign, U+FF0D fullwidth
\* hyphen-minus, U+3041..U+3093 hiragana, U+FF61..U+FF9F halfwidth katakana.
Backslash == 92
Slash == 47

\* One code point's encoding; << >> when the charset has no representation.
ShiftJisEncodeChar(c) ==
  IF c <= 128 THEN << c >>
  ELSE IF c = 165 THEN << 92 >>
  ELSE IF c = 8254 THEN << 126 >>
  ELSE IF c >= 65377 /\ c <= 65439 THEN << c - 65377 + 161 >>
  ELSE IF c = 8722 \/ c = 65293 THEN << 129, 124 >>
  ELSE IF c >= 12353 /\ c <= 12435 THEN << 130, 159 + (c - 12353) >>
  ELSE << >>

\* SHIFT_JIS.encode(name): [bytes, had_errors].
ShiftJisEncode(name) ==
  [bytes |-> Concat([i \in 1..Len(name) |-> ShiftJisEncodeChar(name[i])]),
   had_errors |-> \E i \in 1..Len(name) : ShiftJisEncodeChar(name[i]) = << >>]

IsLeadByte(b) == (b >= 129 /\ b <= 159) \/ (b >= 224 /\ b <= 252)

\* The code point of a two-byte sequence, 0 when the index has none.  The
\* index is restricted to the rows the model's names use.
ShiftJisPair(lead, trail) ==
  IF lead = 130 /\ trail >= 159 /\ trail <= 241 THEN 12353 + (trail - 159)
  ELSE IF lead = 129 /\ trail = 124 THEN 65293
  ELSE 0

\* One step of the decoder on the state [i, text, done, had_errors]: the
\* character at byte i, or the end, or a byte sequence the charset lacks.
ShiftJisDecodeStep(bytes, st) ==
  IF st.done THEN st
  ELSE IF st.i > Len(bytes) THEN [st EXCEPT !.done = TRUE]
  ELSE LET b == bytes[st.i] IN
    IF b <= 128
      THEN [st EXCEPT !.i = @ + 1, !.text = Append(@, b)]
    ELSE IF b >= 161 /\ b <= 223
      THEN [st EXCEPT !.i = @ + 1, !.text = Append(@, 65377 + (b - 161))]
    ELSE IF IsLeadByte(b) /\ st.i < Len(bytes)
              /\ ShiftJisPair(b, bytes[st.i + 1]) # 0
      THEN [st EXCEPT !.i = @ + 2,
                      !.text = Append(@, ShiftJisPair(b, bytes[st.i + 1]))]
    ELSE [st EXCEPT !.done = TRUE, !.had_errors = TRUE]

\* 2^k steps of the decoder.
RECURSIVE ShiftJisDecodeSteps(_, _, _)
ShiftJisDecodeSteps(bytes, st, k) ==
  IF st.done THEN st
  ELSE IF k = 0 THEN ShiftJisDecodeStep(bytes, st)
  ELSE ShiftJisDecodeSteps(bytes, ShiftJisDecodeSteps(bytes, st, k - 1), k - 1)

\* The decoder run to the end of the bytes (a name has at most 255 bytes,
\* so 2^8 steps reach the end).
ShiftJisDecodeFrom(bytes) ==
  ShiftJisDecodeSteps(bytes,
                      [i |-> 1, text |-> << >>, done |-> FALSE,
                       had_errors |-> FALSE], 8)

\* A byte order mark makes Encoding::decode switch to another decoder.
HasBom(bytes) ==
  \/ Len(bytes) >= 2 /\ bytes[1] = 255 /\ bytes[2] = 254
  \/ Len(bytes) >= 2 /\ bytes[1] = 254 /\ bytes[2] = 255
  \/ Len(bytes) >= 3 /\ bytes[1] = 239 /\ bytes[2] = 187 /\ bytes[3] = 191

\* SHIFT_JIS.decode(bytes): [text, had_errors].
ShiftJisDecode(bytes) ==
  IF HasBom(bytes) THEN [text |-> << >>, had_errors |-> TRUE]
  ELSE LET st == ShiftJisDecodeFrom(bytes)
       IN [text |-> st.text, had_errors |-> st.had_errors]

\* -------------------------------------------------------------- name cipher

\* The byte loop of encrypt_name: the byte at 1-based distance k from the end
\* becomes byte - (k as u8), wrapping.
EncryptBytes(b) ==
  [i \in 1..Len(b) |-> (b[i] + 256 - AsU8(Len(b) - i + 1)) % 256]

\* The byte loop of decrypt_name: byte + (k as u8), wrapping.
DecryptBytes(b) ==
  [i \in 1..Len(b) |-> (b[i] + AsU8(Len(b) - i + 1)) % 256]

\* encrypt_name(name): [ok, bytes]; not ok is ArcError::NameEncodeError.
encrypt_name(name) ==
  LET enc == ShiftJisEncode(name) IN
  IF enc.had_errors THEN [ok |-> FALSE, bytes |-> << >>]
  ELSE [ok |-> TRUE, bytes |-> EncryptBytes(enc.bytes)]

\* decrypt_name(encrypted): [ok, name]; not ok is ArcError::NameDecodeError.
decrypt_name(encrypted) ==
  LET dec == ShiftJisDecode(DecryptBytes(encrypted)) IN
  IF dec.had_errors THEN [ok |-> FALSE, name |-> << >>]
  ELSE [ok |-> TRUE, name |-> dec.text]


\* ------------------------------------------------------------ LZSS codec
\* SilkyLzss = Lzss<12, 4, 0x00, ..>: the bit-oriented LZSS of the lzss crate.
\* A literal is the bit 1 and the byte; a match is the bit 0, EI bits of ring
\* position and EJ bits of length - (LzssP + 1).  The ring starts filled with
\* PadByte and the first byte of the data sits at ring position LzssN - LzssF.

EI == 12
EJ == 4
PadByte == 0

LzssN == 2 ^ EI

LzssP == (1 + EI + EJ) \div 9

LzssF == 2 ^ EJ + LzssP

\* The n-bit big-endian representation of v.
Bits(v, n) == [i \in 1..n |-> (v \div (2 ^ (n - i))) % 2]

RECURSIVE BitsValue(_, _, _)
BitsValue(bits, from, n) ==
  IF n = 0 THEN 0
  ELSE 2 * BitsValue(bits, from, n - 1) + bits[from + n - 1]

\* Bytes to bits and back; the last byte is padded with zero bits.
BytesToBits(bytes) ==
  [i \in 1..(8 * Len(bytes)) |-> (bytes[((i - 1) \div 8) + 1] \div (2 ^ (7 - ((i - 1) % 8)))) % 2]

BitsToBytes(bits) ==
  LET padded == bits \o Repeat(0, (8 - (Len(bits) % 8)) % 8)
  IN [i \in 1..(Len(padded) \div 8) |-> BitsValue(padded, 8 * (i - 1) + 1, 8)]

\* The encoder's buffer: padding below LzssN - LzssF, then the data (inputs
\* shorter than LzssN, so the buffer never slides).
EncBuf(data, q) ==
  IF q < LzssN - LzssF THEN PadByte ELSE data[q - (LzssN - LzssF) + 1]

RECURSIVE MatchLen(_, _, _, _, _)
MatchLen(data, i, r, j, f1) ==
  IF j < f1 /\ EncBuf(data, i + j) = EncBuf(data, r + j)
    THEN MatchLen(data, i, r, j + 1, f1)
    ELSE j

\* The longest match for the data at `done` bytes consumed: [x, y].  The scan
\* runs down from r - 1 and keeps the first strictly longer match, so the
\* result is the highest position of maximal length; positions below
\* LzssN - 2 * LzssF see only padding and cannot beat LzssN - 2 * LzssF.
LongestMatch(data, done) ==
  LET r == LzssN - LzssF + done
      f1 == Min(LzssF, Len(data) - done)
      found == {<<i, MatchLen(data, i, r, 1, f1)>> :
                  i \in {q \in Max(done, LzssN - 2 * LzssF)..(r - 1) :
                           EncBuf(data, q) = EncBuf(data, r)}}
      top == CHOOSE m \in found :
               \A o \in found : o[2] < m[2] \/ (o[2] = m[2] /\ o[1] <= m[1])
  IN IF found = {} \/ top[2] <= 1 THEN [x |-> 0, y |-> 1]
     ELSE [x |-> top[1], y |-> top[2]]

\* The token the encoder emits at `done` bytes consumed: [len, bits].
TokenAt(data, done) ==
  LET m == LongestMatch(data, done) IN
  IF m.y <= LzssP
    THEN [len |-> 1, bits |-> << 1 >> \o Bits(data[done + 1], 8)]
    ELSE [len |-> m.y,
          bits |-> << 0 >> \o Bits(m.x % LzssN, EI)
                     \o Bits(m.y - (LzssP + 1), EJ)]

\* Up to 2^k tokens from `done` bytes consumed: [next, bits].
RECURSIVE LzssEncodeSpan(_, _, _)
LzssEncodeSpan(data, done, k) ==
  IF done >= Len(data) THEN [next |-> done, bits |-> << >>]
  ELSE IF k = 0
    THEN LET t == TokenAt(data, done)
         IN [next |-> done + t.len, bits |-> t.bits]
  ELSE LET a == LzssEncodeSpan(data, done, k - 1)
           b == LzssEncodeSpan(data, a.next, k - 1)
       IN [next |-> b.next, bits |-> a.bits \o b.bits]

\* The complete encoder output for data (fewer than 2^EI tokens).
LzssEncode(data) == BitsToBytes(LzssEncodeSpan(data, 0, EI).bits)

\* The decoder's ring at position q after `out` was written.
DecRing(out, q) ==
  LET t0 == (q + LzssN - (LzssN - LzssF)) % LzssN IN
  IF t0 >= Len(out) THEN PadByte
  ELSE out[t0 + LzssN * ((Len(out) - 1 - t0) \div LzssN) + 1]

RECURSIVE CopyMatch(_, _, _, _)
CopyMatch(out, i, k, last) ==
  IF k > last THEN out
  ELSE CopyMatch(Append(out, DecRing(out, (i + k) % LzssN)), i, k + 1, last)

\* One token of the decoder on the state [p, out, done, ok].  Decoding stops
\* at the end of the input; an output longer than cap bytes overflows the
\* SliceWriter, which is the codec's error.
LzssDecodeStep(bits, st, cap) ==
  IF st.done THEN st
  ELSE IF Len(st.out) > cap THEN [st EXCEPT !.done = TRUE, !.ok = FALSE]
  ELSE IF st.p > Len(bits) THEN [st EXCEPT !.done = TRUE]
  ELSE IF bits[st.p] = 1
    THEN IF st.p + 8 > Len(bits) THEN [st EXCEPT !.done = TRUE]
         ELSE [st EXCEPT !.p = @ + 9,
                         !.out = Append(@, BitsValue(bits, st.p + 1, 8))]
    ELSE IF st.p + EI + EJ > Len(bits) THEN [st EXCEPT !.done = TRUE]
         ELSE [st EXCEPT !.p = @ + 1 + EI + EJ,
                         !.out = CopyMatch(@, BitsValue(bits, st.p + 1, EI), 0,
                                           BitsValue(bits, st.p + 1 + EI, EJ)
                                             + LzssP)]

\* 2^k tokens of the decoder.
RECURSIVE LzssDecodeSteps(_, _, _, _)
LzssDecodeSteps(bits, st, cap, k) ==
  IF st.done THEN st
  ELSE IF k = 0 THEN LzssDecodeStep(bits, st, cap)
  ELSE LzssDecodeSteps(bits, LzssDecodeSteps(bits, st, cap, k - 1), cap, k - 1)

\* The decoder run to the end of the bits (fewer than 2^EI tokens).
LzssDecodeFrom(bits, cap) ==
  LET st == LzssDecodeSteps(bits,
                            [p |-> 1, out |-> << >>, done |-> FALSE,
                             ok |-> TRUE], cap, EI)
  IN IF st.ok THEN [ok |-> TRUE, data |-> st.out]
     ELSE [ok |-> FALSE, data |-> << >>]

\* SilkyLzss::compress_stack into a buffer of cap bytes: [ok, data].
compress_stack(data, cap) ==
  LET out == LzssEncode(data) IN
  IF Len(out) > cap THEN [ok |-> FALSE, data |-> << >>]
  ELSE [ok |-> TRUE, data |-> out]

\* SilkyLzss::decompress_stack into a buffer of cap bytes: [ok, data].
decompress_stack(bytes, cap) == LzssDecodeFrom(BytesToBits(bytes), cap)


\* ------------------------------------------------------------ binary layout

\* The four bytes of a u32 field, most significant first.
U32Bytes(v) ==
  << (v \div 16777216) % 256, (v \div 65536) % 256, (v \div 256) % 256, v % 256 >>

Reverse(s) == [i \in 1..Len(s) |-> s[Len(s) + 1 - i]]

\* write_u32::<BigEndian> and write_u32::<LittleEndian>.
WriteU32BE(v) == U32Bytes(v)

WriteU32LE(v) == Reverse(U32Bytes(v))

\* The u32 held by four bytes given most significant first.
U32Value(b) ==
  AsU32(256 * AsU32(256 * AsU32(256 * AsU32(b[1]) + b[2]) + b[3]) + b[4])

\* read_u32 at 0-based position pos; the caller checks pos + 4 <= Len(bytes).
ReadU32BE(bytes, pos) == U32Value(SubSeq(bytes, pos + 1, pos + 4))

ReadU32LE(bytes, pos) == U32Value(Reverse(SubSeq(bytes, pos + 1, pos + 4)))

\* A write of `bytes` at 0-based position pos of a file: what is there is
\* overwritten, the file grows as needed and a gap reads as zeros.
WriteAt(file, pos, bytes) ==
  [i \in 1..Max(Len(file), pos + Len(bytes)) |->
     IF i > pos /\ i <= pos + Len(bytes) THEN bytes[i - pos]
     ELSE IF i <= Len(file) THEN file[i]
     ELSE 0]

\* ------------------------------------------------------------------- paths
\* A path is a sequence of components, each a string.  The host decides the
\* separators: Path::join and Path::parent split a name at '/' on a Unix
\* host and at '/' and '\' on a Windows host.

Hosts == {"unix", "windows"}

MainSeparator(host) == IF host = "windows" THEN Backslash ELSE Slash

IsSeparator(c, host) == c = Slash \/ (host = "windows" /\ c = Backslash)

\* relative_path.to_string_lossy(): the components joined by the separator.
RECURSIVE PathString(_, _)
PathString(path, host) ==
  IF path = << >> THEN << >>
  ELSE IF Len(path) = 1 THEN path[1]
  ELSE path[1] \o << MainSeparator(host) >> \o PathString(Tail(path), host)

\* str::replace("/", "\\").
ReplaceSlash(str) ==
  [i \in 1..Len(str) |-> IF str[i] = Slash THEN Backslash ELSE str[i]]

\* The components of a name on the host; empty components are dropped.
RECURSIVE SplitPath(_, _, _, _)
SplitPath(name, host, i, cur) ==
  IF i > Len(name) THEN (IF cur = << >> THEN << >> ELSE << cur >>)
  ELSE IF IsSeparator(name[i], host)
    THEN (IF cur = << >> THEN << >> ELSE << cur >>)
           \o SplitPath(name, host, i + 1, << >>)
    ELSE SplitPath(name, host, i + 1, Append(cur, name[i]))

\* output_dir.join(name), relative to the output root.
JoinOutput(name, host) == SplitPath(name, host, 1, << >>)

\* The proper, non-empty prefixes of a path: the directories above it.
Ancestors(path) == {SubSeq(path, 1, k) : k \in 1..(Len(path) - 1)}


\* ------------------------------------------------------------------ inputs
\* An input file is [path, data]; a tree is the files under the input
\* directory in the order WalkDir discovers them.

Noise(n) == [i \in 1..n |-> ((i * (i + 1)) \div 2 + 7 * (i \div 3) + 1) % 256]

DataEmpty == << >>
DataHello == << 104, 101, 108, 108, 111 >>
DataZeros == Repeat(0, 4)
\* As long as the u32 range and four bytes more, of period LzssF.
DataBig == [i \in 1..(U32Mod + 4) |-> ((i - 1) % LzssF) + 1]
\* Incompressible, just short of the u32 range.
DataNoise == Noise(U32Mod - 1)

PathA == << << 97 >> >>
PathB == << << 98 >> >>
PathC == << << 99 >> >>
PathNested == << << 115 >>, << 98 >> >>
PathYen == << << 165 >> >>
PathHiragana == << << 12354 >> >>
PathUnencodable == << << 233 >> >>
PathLong == << Repeat(97, U8Mod) >>
PathBackslash == << << 97, Backslash, 98 >> >>

File(path, data) == [path |-> path, data |-> data]

\* A backslash is a legal character of a file name only on a Unix host.
FilePool(h) ==
  { File(PathA, DataHello), File(PathNested, DataEmpty),
    File(PathYen, DataZeros), File(PathHiragana, DataHello),
    File(PathUnencodable, DataEmpty), File(PathLong, DataZeros),
    File(PathB, DataBig), File(PathC, DataNoise) }
  \cup (IF h = "unix" THEN { File(PathBackslash, DataHello) } ELSE {})

RECURSIVE SeqsUpTo(_, _)
SeqsUpTo(S, n) ==
  IF n = 0 THEN { << >> }
  ELSE LET shorter == SeqsUpTo(S, n - 1)
       IN shorter \cup {Append(t, x) : t \in shorter, x \in S}

\* No two files share a path and no file's path is a directory of another.
IsTree(t) ==
  \A i, j \in 1..Len(t) :
    i # j => /\ t[i].path # t[j].path
             /\ t[i].path \notin Ancestors(t[j].path)

Trees(h) == {t \in SeqsUpTo(FilePool(h), MaxFiles) : IsTree(t)}

\* --------------------------------------------------------------- handle_pack

\* One iteration of the discovery loop: the PackFileInfo of a file.
\* `src` is the file's index in the tree (full_path).
NewPackFileInfo(file, src, enc) ==
  [relative_path |-> file.path,
   src |-> src,
   encrypted_name |-> enc,
   original_size |-> AsU32(Len(file.data)),
   has_data |-> FALSE,
   compressed_data |-> << >>,
   compressed_size |-> 0,
   offset |-> 0,
   result |-> "none"]

\* The name handed to encrypt_name for a file.
NameForEncrypt(file, h) == ReplaceSlash(PathString(file.path, h))

\* The discovery loop over the tree: [ok, files]; not ok when a name cannot
\* be encoded (the `?` on encrypt_name returns from handle_pack).
RECURSIVE Discover(_, _, _, _)
Discover(tree, h, i, acc) ==
  IF i > Len(tree) THEN [ok |-> TRUE, files |-> acc]
  ELSE LET enc == encrypt_name(NameForEncrypt(tree[i], h)) IN
    IF ~enc.ok THEN [ok |-> FALSE, files |-> << >>]
    ELSE Discover(tree, h, i + 1,
                  Append(acc, NewPackFileInfo(tree[i], i, enc.bytes)))

\* A variant that writes the size of the (empty) metadata block instead.
EmptyArchiveBlockSize == WriteU32LE(0)

\* The archive written for an empty input directory.
EmptyArchive == WriteU32LE(4)

\* Whether the compression branch of a unit stores the codec's output.
KeepsCompressed(info, result) ==
  result.ok /\ AsU32(Len(result.data)) < info.original_size

\* A unit that stores the file's bytes as they are.
StoreRaw(info, file_data) ==
  [info EXCEPT !.has_data = TRUE,
               !.compressed_data = file_data,
               !.compressed_size = info.original_size,
               !.result = "Ok"]

\* A variant whose Err arm returns the error (the `return Err(..)` the code
\* leaves commented out).
ProcessFileFatal(info, file_data, compress) ==
  IF compress /\ info.original_size > 0
    THEN LET compress_result ==
               compress_stack(file_data, info.original_size * 2) IN
      IF ~compress_result.ok
        THEN [info EXCEPT !.result = "LzssCompressError"]
      ELSE IF KeepsCompressed(info, compress_result)
        THEN [info EXCEPT !.has_data = TRUE,
                          !.compressed_data = compress_result.data,
                          !.compressed_size = AsU32(Len(compress_result.data)),
                          !.result = "Ok"]
        ELSE StoreRaw(info, file_data)
    ELSE StoreRaw(info, file_data)

\* The per-file unit of the parallel stage once fs::read returned file_data;
\* `result` is what the unit returns.
ProcessFile(info, file_data, compress) ==
  IF compress /\ info.original_size > 0
    THEN LET compress_result ==
               compress_stack(file_data, info.original_size * 2) IN
      IF KeepsCompressed(info, compress_result)
        THEN [info EXCEPT !.has_data = TRUE,
                          !.compressed_data = compress_result.data,
                          !.compressed_size = AsU32(Len(compress_result.data)),
                          !.result = "Ok"]
        ELSE StoreRaw(info, file_data)
    ELSE StoreRaw(info, file_data)

\* The size of one metadata entry as the layout pass adds it up.
EntrySize(info) == 1 + AsU32(Len(info.encrypted_name)) + 4 + 4 + 4

\* current_offset after the first loop of the layout pass over files 1..n:
\* [value, overflow]; overflow records that a u32 addition wrapped.
RECURSIVE MetadataEnd(_, _)
MetadataEnd(files, n) ==
  IF n = 0 THEN [value |-> 4, overflow |-> FALSE]
  ELSE LET before == MetadataEnd(files, n - 1)
           sum == before.value + EntrySize(files[n])
       IN [value |-> AsU32(sum),
           overflow |-> before.overflow \/ sum >= U32Mod]

\* current_offset before the second loop reaches file n + 1.
RECURSIVE DataEnd(_, _, _)
DataEnd(files, start, n) ==
  IF n = 0 THEN [value |-> start, overflow |-> FALSE]
  ELSE LET before == DataEnd(files, start, n - 1)
           sum == before.value + files[n].compressed_size
       IN [value |-> AsU32(sum),
           overflow |-> before.overflow \/ sum >= U32Mod]

\* The sequential layout pass: [files, metadata_block_size, overflow].
Layout(files) ==
  LET end == MetadataEnd(files, Len(files))
      n == Len(files)
  IN [files |-> [i \in 1..n |->
                   [files[i] EXCEPT
                      !.offset = DataEnd(files, end.value, i - 1).value]],
      metadata_block_size |-> AsU32(end.value + U32Mod - 4),
      overflow |-> \/ end.overflow
                   \/ end.value < 4
                   \/ DataEnd(files, end.value, n).overflow]

\* The value handle_pack writes into the header.
HeaderValue(lay) == lay.metadata_block_size

\* One metadata entry as written.
EntryBytes(info) ==
  << AsU8(Len(info.encrypted_name)) >> \o info.encrypted_name
    \o WriteU32BE(info.compressed_size) \o WriteU32BE(info.original_size)
    \o WriteU32BE(info.offset)

\* The data loop of the write pass from file i on: a block goes to the
\* writer's position, after a seek when that is not the entry's offset.
RECURSIVE WriteData(_, _, _, _)
WriteData(files, i, out, pos) ==
  IF i > Len(files) THEN out
  ELSE LET at == IF pos # files[i].offset THEN files[i].offset ELSE pos
       IN WriteData(files, i + 1,
                    WriteAt(out, at, files[i].compressed_data),
                    at + Len(files[i].compressed_data))

\* The whole write pass: header, metadata entries, data blocks.
WriteArchive(files, header) ==
  LET meta == WriteU32LE(header)
                \o Concat([i \in 1..Len(files) |-> EntryBytes(files[i])])
  IN WriteData(files, 1, meta, Len(meta))


\* ------------------------------------------------------------- handle_unpack

\* One FileEntry read at 0-based position pos: [ok, entry, next].  Not ok is
\* the UnexpectedEof of a read past the end of the file or the
\* NameDecodeError of decrypt_name.
ReadEntry(bytes, pos) ==
  LET bad == [ok |-> FALSE, entry |-> << >>, next |-> pos] IN
  IF pos + 1 > Len(bytes) THEN bad
  ELSE LET name_len == bytes[pos + 1]
           fields == pos + 1 + name_len
       IN IF fields + 12 > Len(bytes) THEN bad
          ELSE LET encrypted_name_buf == SubSeq(bytes, pos + 2, fields)
                   dec == decrypt_name(encrypted_name_buf)
               IN IF ~dec.ok THEN bad
                  ELSE [ok |-> TRUE,
                        entry |-> [encrypted_name |-> encrypted_name_buf,
                                   name |-> dec.name,
                                   compressed_size |-> ReadU32BE(bytes, fields),
                                   original_size |-> ReadU32BE(bytes, fields + 4),
                                   offset |-> ReadU32BE(bytes, fields + 8)],
                        next |-> fields + 12]

\* A variant that stops at the end of the file with the entries read so far.
RECURSIVE ReadEntriesLenient(_, _, _, _)
ReadEntriesLenient(bytes, pos, metadata_end_offset, acc) ==
  IF pos >= metadata_end_offset THEN [ok |-> TRUE, entries |-> acc]
  ELSE LET e == ReadEntry(bytes, pos) IN
    IF ~e.ok THEN [ok |-> TRUE, entries |-> acc]
    ELSE ReadEntriesLenient(bytes, e.next, metadata_end_offset,
                            Append(acc, e.entry))

\* The metadata loop: entries are read while the cursor is below
\* metadata_end_offset.
RECURSIVE ReadEntries(_, _, _, _)
ReadEntries(bytes, pos, metadata_end_offset, acc) ==
  IF pos >= metadata_end_offset THEN [ok |-> TRUE, entries |-> acc]
  ELSE LET e == ReadEntry(bytes, pos) IN
    IF ~e.ok THEN [ok |-> FALSE, entries |-> << >>]
    ELSE ReadEntries(bytes, e.next, metadata_end_offset, Append(acc, e.entry))

\* The parse stage of handle_unpack: [ok, entries].
ParseArchive(bytes) ==
  IF Len(bytes) < 4 THEN [ok |-> FALSE, entries |-> << >>]
  ELSE ReadEntries(bytes, 4, ReadU32LE(bytes, 0), << >>)

\* The bytes a task reads for an entry: [ok, data]; read_exact fails when
\* the file ends before compressed_size bytes were read.
ReadBlock(bytes, entry) ==
  IF entry.compressed_size = 0 THEN [ok |-> TRUE, data |-> << >>]
  ELSE IF entry.offset + entry.compressed_size > Len(bytes)
    THEN [ok |-> FALSE, data |-> << >>]
  ELSE [ok |-> TRUE,
        data |-> SubSeq(bytes, entry.offset + 1,
                        entry.offset + entry.compressed_size)]

\* final_data of a task: [ok, data].
FinalData(entry, block) ==
  IF entry.compressed_size # entry.original_size
    THEN decompress_stack(block, entry.original_size * 4)
    ELSE [ok |-> TRUE, data |-> block]

\* The path a task writes, relative to the output root.
OutputPath(entry, h) == JoinOutput(entry.name, h)

\* The directories fs::create_dir_all(parent) leaves behind, given the files
\* there are: it creates the ancestors in order and stops at one that is a
\* file.
CreatedDirs(path, files) ==
  {d \in Ancestors(path) :
     \A k \in 1..Len(d) : SubSeq(path, 1, k) \notin DOMAIN files}

\* A variant that compensates: a failing task removes the files written so
\* far.
ExtractEntryRollback(bytes, entry, h, files, dirs) ==
  LET path == OutputPath(entry, h)
      newdirs == dirs \cup CreatedDirs(path, files)
      dirs_ok == \A d \in Ancestors(path) : d \notin DOMAIN files
      block == ReadBlock(bytes, entry)
      final == FinalData(entry, block.data)
      create_ok == path # << >> /\ path \notin newdirs
  IN IF ~dirs_ok \/ ~block.ok \/ ~final.ok \/ ~create_ok
       THEN [ok |-> FALSE, files |-> << >>, dirs |-> newdirs]
       ELSE [ok |-> TRUE,
             files |-> [q \in DOMAIN files \cup {path} |->
                          IF q = path THEN final.data ELSE files[q]],
             dirs |-> newdirs]

\* One extraction task on the output tree [files, dirs]:
\* [ok, files, dirs].
ExtractEntry(bytes, entry, h, files, dirs) ==
  LET path == OutputPath(entry, h)
      newdirs == dirs \cup CreatedDirs(path, files)
      dirs_ok == \A d \in Ancestors(path) : d \notin DOMAIN files
      block == ReadBlock(bytes, entry)
      final == FinalData(entry, block.data)
      create_ok == path # << >> /\ path \notin newdirs
  IN IF ~dirs_ok \/ ~block.ok \/ ~final.ok \/ ~create_ok
       THEN [ok |-> FALSE, files |-> files, dirs |-> newdirs]
       ELSE [ok |-> TRUE,
             files |-> [q \in DOMAIN files \cup {path} |->
                          IF q = path THEN final.data ELSE files[q]],
             dirs |-> newdirs]


\* ------------------------------------------------------------ state machine

VARIABLES
  host,                \* the host the tool runs on
  compress,            \* handle_pack's compress argument
  inTree,              \* the files under input_dir, in discovery order
  pc,                  \* where the run is
  files_to_pack,       \* handle_pack's vector of PackFileInfo
  metadata_block_size, \* the header value the layout pass computed
  packResult,          \* "none", "Ok", "Err" or "Panic"
  archive,             \* the output archive: [exists, bytes]
  arcIn,               \* the bytes of the file handed to handle_unpack
  file_entries,        \* handle_unpack's vector of FileEntry
  unit,                \* the state of each extraction task
  outFiles,            \* the files under output_dir: path -> bytes
  outDirs,             \* the directories created under output_dir
  unpackResult,        \* "none", "Ok" or "Err"
  variant,             \* "library" (lib.rs) or "binary" (main.rs) unpack
  handle,              \* the position of each read handle on the archive
  mutex,               \* the worker that holds the binary's Mutex, or 0
  wpc,                 \* where each extraction worker is in its read
  compressed           \* the buffer each worker has read

\* The state of a pack and unpack run.
runVars == << host, compress, inTree, pc, files_to_pack, metadata_block_size,
              packResult, archive, arcIn, file_entries, unit, outFiles,
              outDirs, unpackResult >>

\* The state of the workers' reads of the archive.
readVars == << variant, handle, mutex, wpc, compressed >>

vars == << runVars, readVars >>

inputs == << host, compress, inTree >>

unpackVars == << arcIn, file_entries, unit, outFiles, outDirs, unpackResult >>

Init ==
  /\ host \in Hosts
  /\ compress \in BOOLEAN
  /\ inTree \in Trees(host)
  /\ pc = "pack_start"
  /\ files_to_pack = << >>
  /\ metadata_block_size = 0
  /\ packResult = "none"
  /\ archive = [exists |-> FALSE, bytes |-> << >>]
  /\ arcIn = << >>
  /\ file_entries = << >>
  /\ unit = << >>
  /\ outFiles = << >>
  /\ outDirs = {}
  /\ unpackResult = "none"
  /\ variant = "library"
  /\ handle = << >>
  /\ mutex = 0
  /\ wpc = << >>
  /\ compressed = << >>

\* handle_pack up to the parallel stage: the directory walk, and the header-
\* only archive when there is nothing to pack.
PackDiscover ==
  /\ pc = "pack_start"
  /\ LET walk == Discover(inTree, host, 1, << >>) IN
       IF ~walk.ok
         THEN /\ packResult' = "Err"
              /\ pc' = "done"
              /\ UNCHANGED << files_to_pack, archive >>
       ELSE IF walk.files = << >>
         THEN /\ archive' = [exists |-> TRUE, bytes |-> EmptyArchive]
              /\ packResult' = "Ok"
              /\ pc' = "unpack_start"
              /\ UNCHANGED files_to_pack
       ELSE /\ files_to_pack' = walk.files
            /\ pc' = "pack_compress"
            /\ UNCHANGED << packResult, archive >>
  /\ UNCHANGED readVars
  /\ UNCHANGED << inputs, metadata_block_size, unpackVars >>

\* One unit of the parallel stage; fs::read can fail.
CompressUnit(i) ==
  /\ pc = "pack_compress"
  /\ files_to_pack[i].result = "none"
  /\ \E read_ok \in BOOLEAN :
       files_to_pack' =
         [files_to_pack EXCEPT ![i] =
            IF read_ok
              THEN ProcessFile(@, inTree[@.src].data, compress)
              ELSE [@ EXCEPT !.result = "Io"]]
  /\ UNCHANGED readVars
  /\ UNCHANGED << inputs, pc, metadata_block_size, packResult, archive,
                  unpackVars >>

\* collect::<Result<..>>()? with a failed unit: handle_pack returns the error.
PackAbort ==
  /\ pc = "pack_compress"
  /\ \E i \in 1..Len(files_to_pack) :
       files_to_pack[i].result \notin {"none", "Ok"}
  /\ packResult' = "Err"
  /\ pc' = "done"
  /\ UNCHANGED readVars
  /\ UNCHANGED << inputs, files_to_pack, metadata_block_size, archive,
                  unpackVars >>

\* A variant that lets the run go on once some unit returned Ok.
SomeProcessed == \E i \in 1..Len(files_to_pack) : files_to_pack[i].result = "Ok"

\* collect() has every unit's Ok.
AllProcessed == \A i \in 1..Len(files_to_pack) : files_to_pack[i].result = "Ok"

\* The sequential layout pass, after every unit returned Ok.
PackLayout ==
  /\ pc = "pack_compress"
  /\ AllProcessed
  /\ LET lay == Layout(files_to_pack) IN
       /\ files_to_pack' = lay.files
       /\ metadata_block_size' = HeaderValue(lay)
  /\ pc' = "pack_write"
  /\ UNCHANGED readVars
  /\ UNCHANGED << inputs, packResult, archive, unpackVars >>

\* A build with overflow checks panics where the layout pass wraps.
PackPanic ==
  /\ pc = "pack_compress"
  /\ AllProcessed
  /\ Layout(files_to_pack).overflow
  /\ packResult' = "Panic"
  /\ pc' = "done"
  /\ UNCHANGED readVars
  /\ UNCHANGED << inputs, files_to_pack, metadata_block_size, archive,
                  unpackVars >>

\* The sequential write pass.
PackWrite ==
  /\ pc = "pack_write"
  /\ archive' = [exists |-> TRUE,
                 bytes |-> WriteArchive(files_to_pack, metadata_block_size)]
  /\ packResult' = "Ok"
  /\ pc' = "unpack_start"
  /\ UNCHANGED readVars
  /\ UNCHANGED << inputs, files_to_pack, metadata_block_size, unpackVars >>

\* The lengths at which the archive handed to handle_unpack ends: the whole
\* archive, or a truncation of it.
TruncPoints(bytes) == (0..Min(Len(bytes), TruncMax)) \cup {Len(bytes)}

\* handle_unpack up to the parallel stage: header and metadata.
UnpackParse ==
  /\ pc = "unpack_start"
  /\ \E n \in TruncPoints(archive.bytes) :
       LET bytes == SubSeq(archive.bytes, 1, n)
           parsed == ParseArchive(bytes)
       IN /\ arcIn' = bytes
          /\ IF parsed.ok
               THEN /\ file_entries' = parsed.entries
                    /\ unit' = [i \in 1..Len(parsed.entries) |-> "idle"]
                    /\ pc' = "unpack_extract"
                    /\ UNCHANGED unpackResult
               ELSE /\ unpackResult' = "Err"
                    /\ pc' = "done"
                    /\ UNCHANGED << file_entries, unit >>
  /\ UNCHANGED readVars
  /\ UNCHANGED << inputs, files_to_pack, metadata_block_size, packResult,
                  archive, outFiles, outDirs >>

\* One task of the parallel extraction, with its own handle on the archive.
ExtractUnit(i) ==
  /\ pc = "unpack_extract"
  /\ unit[i] = "idle"
  /\ LET r == ExtractEntry(arcIn, file_entries[i], host, outFiles, outDirs) IN
       /\ unit' = [unit EXCEPT ![i] = IF r.ok THEN "ok" ELSE "err"]
       /\ outFiles' = r.files
       /\ outDirs' = r.dirs
  /\ UNCHANGED readVars
  /\ UNCHANGED << inputs, pc, files_to_pack, metadata_block_size, packResult,
                  archive, arcIn, file_entries, unpackResult >>

\* collect::<Result<..>>()?: the first error once a task failed, Ok once all
\* tasks returned Ok.
UnpackFinish ==
  /\ pc = "unpack_extract"
  /\ \/ \A i \in 1..Len(unit) : unit[i] # "idle"
     \/ \E i \in 1..Len(unit) : unit[i] = "err"
  /\ unpackResult' = IF \E i \in 1..Len(unit) : unit[i] = "err"
                       THEN "Err" ELSE "Ok"
  /\ pc' = "done"
  /\ UNCHANGED readVars
  /\ UNCHANGED << inputs, files_to_pack, metadata_block_size, packResult,
                  archive, arcIn, file_entries, unit, outFiles, outDirs >>

Next ==
  \/ PackDiscover
  \/ \E i \in 1..Len(files_to_pack) : CompressUnit(i)
  \/ PackAbort
  \/ PackLayout
  \/ PackPanic
  \/ PackWrite
  \/ UnpackParse
  \/ \E i \in 1..Len(unit) : ExtractUnit(i)
  \/ UnpackFinish

Spec == Init /\ [][Next]_vars


\* ------------------------------------------------- the workers' archive reads
\* The parallel extraction at the grain of one seek and one read.  The
\* library opens a handle of its own in every task; the binary shares one
\* handle behind a Mutex and holds the lock over its seek and read.

Variants == {"library", "binary"}

\* The entries the metadata of an archive can name: any offset and size,
\* inside the file or past its end.
ReadEntryPool ==
  {[name |-> << 97 >>, encrypted_name |-> << 96 >>, original_size |-> sz,
    compressed_size |-> sz, offset |-> off] : off \in {0, 4}, sz \in {3, 8}}

\* The archive file the workers read.
ReadArchive == Noise(10)

Workers == 1..Len(file_entries)

\* A variant in which every task uses one handle without a lock.
SharedHandle(w) == 0

\* The handle a worker seeks and reads: its own, or the one in the Mutex.
HandleOf(w) == IF variant = "library" THEN w ELSE 0

InitRead ==
  /\ host = "unix"
  /\ compress = FALSE
  /\ inTree = << >>
  /\ pc = "unpack_extract"
  /\ files_to_pack = << >>
  /\ metadata_block_size = 0
  /\ packResult = "none"
  /\ archive = [exists |-> TRUE, bytes |-> ReadArchive]
  /\ arcIn = ReadArchive
  /\ file_entries \in {e \in SeqsUpTo(ReadEntryPool, MaxWorkers) : Len(e) >= 2}
  /\ unit = [i \in 1..Len(file_entries) |-> "idle"]
  /\ outFiles = << >>
  /\ outDirs = {}
  /\ unpackResult = "none"
  /\ variant \in Variants
  /\ handle = [h \in 0..Len(file_entries) |-> 0]
  /\ mutex = 0
  /\ wpc = [i \in 1..Len(file_entries) |-> "idle"]
  /\ compressed = [i \in 1..Len(file_entries) |-> << >>]

\* Library: File::open gives the task a handle of its own, at position 0.
WorkerOpen(w) ==
  /\ variant = "library"
  /\ wpc[w] = "idle"
  /\ handle' = [handle EXCEPT ![HandleOf(w)] = 0]
  /\ wpc' = [wpc EXCEPT ![w] = "ready"]
  /\ UNCHANGED << runVars, variant, mutex, compressed >>

\* Binary: file.lock() returns once no other worker holds the Mutex.
WorkerLock(w) ==
  /\ variant = "binary"
  /\ wpc[w] = "idle"
  /\ mutex = 0
  /\ mutex' = w
  /\ wpc' = [wpc EXCEPT ![w] = "ready"]
  /\ UNCHANGED << runVars, variant, handle, compressed >>

\* seek(SeekFrom::Start(entry.offset)).
WorkerSeek(w) ==
  /\ wpc[w] = "ready"
  /\ handle' = [handle EXCEPT ![HandleOf(w)] = file_entries[w].offset]
  /\ wpc' = [wpc EXCEPT ![w] = "sought"]
  /\ UNCHANGED << runVars, variant, mutex, compressed >>

\* read_exact into the buffer of compressed_size bytes, from the handle's
\* position; it fails when the file ends first.  The binary's guard is
\* dropped at the end of the block, on both outcomes.
WorkerRead(w) ==
  /\ wpc[w] = "sought"
  /\ LET from == handle[HandleOf(w)]
         to == from + file_entries[w].compressed_size
     IN IF to <= Len(arcIn)
          THEN /\ compressed' = [compressed EXCEPT ![w] = SubSeq(arcIn, from + 1, to)]
               /\ handle' = [handle EXCEPT ![HandleOf(w)] = to]
               /\ wpc' = [wpc EXCEPT ![w] = "read"]
          ELSE /\ handle' = [handle EXCEPT ![HandleOf(w)] = Len(arcIn)]
               /\ wpc' = [wpc EXCEPT ![w] = "failed"]
               /\ UNCHANGED compressed
  /\ mutex' = IF mutex = w THEN 0 ELSE mutex
  /\ UNCHANGED << runVars, variant >>

NextRead ==
  \/ \E w \in Workers : WorkerOpen(w)
  \/ \E w \in Workers : WorkerLock(w)
  \/ \E w \in Workers : WorkerSeek(w)
  \/ \E w \in Workers : WorkerRead(w)

SpecRead == InitRead /\ [][NextRead]_vars


\* ------------------------------------------------------------------ claims

\* The input directory as a map from relative path to content.
InTreeMap ==
  [p \in {inTree[i].path : i \in 1..Len(inTree)} |->
     inTree[CHOOSE i \in 1..Len(inTree) : inTree[i].path = p].data]

\* handle_pack returned Ok and handle_unpack ran on the archive it wrote.
UnpackedWholeArchive ==
  /\ pc = "done"
  /\ packResult = "Ok"
  /\ unpackResult # "none"
  /\ arcIn = archive.bytes

\* C1: pack followed by unpack of the produced archive gives back exactly
\* the input's relative paths, each with the same bytes, with and without
\* compression.
C1_RoundTrip ==
  UnpackedWholeArchive => unpackResult = "Ok" /\ outFiles = InTreeMap

\* The name handle_pack encrypted for entry i.
PackedName(i) == NameForEncrypt(inTree[files_to_pack[i].src], host)

\* C2: the decrypt transform undoes the encrypt transform on the encoded
\* bytes of every packed name, decrypt_name gives back the name that
\* encrypt_name was given, and two different names of equal length never
\* have the same encrypted bytes.
C2_CipherInverse ==
  /\ \A i \in 1..Len(files_to_pack) :
       LET b == ShiftJisEncode(PackedName(i)).bytes IN
         /\ DecryptBytes(EncryptBytes(b)) = b
         /\ decrypt_name(files_to_pack[i].encrypted_name)
              = [ok |-> TRUE, name |-> PackedName(i)]
  /\ \A i, j \in 1..Len(files_to_pack) :
       (PackedName(i) # PackedName(j)
          /\ Len(PackedName(i)) = Len(PackedName(j)))
         => files_to_pack[i].encrypted_name # files_to_pack[j].encrypted_name

\* The bytes of the metadata entries of files 1..n as they are written.
RECURSIVE MetadataBytes(_, _)
MetadataBytes(files, n) ==
  IF n = 0 THEN 0
  ELSE MetadataBytes(files, n - 1) + 1 + Len(files[n].encrypted_name) + 12

\* The header value of the archive on disk.
StoredHeader == ReadU32LE(archive.bytes, 0)

\* C3: the header of a written archive is 4 plus the sum over the entries
\* of (1 + len(encryptedName) + 12), the offset at which the metadata block
\* ends.
C3_HeaderIsMetadataEnd ==
  packResult = "Ok"
    => StoredHeader = 4 + MetadataBytes(files_to_pack, Len(files_to_pack))

\* The sum of compressedSize over entries 1..n.
RECURSIVE CompressedBytes(_, _)
CompressedBytes(files, n) ==
  IF n = 0 THEN 0
  ELSE CompressedBytes(files, n - 1) + files[n].compressed_size

\* C4: in a written archive every entry's dataOffset is the header value
\* plus the compressed sizes of the entries before it.
C4_OffsetConsistency ==
  packResult = "Ok"
    => \A i \in 1..Len(files_to_pack) :
         files_to_pack[i].offset
           = StoredHeader + CompressedBytes(files_to_pack, i - 1)

\* The codec's result for the file of entry i, and the file's bytes.
SourceData(i) == inTree[files_to_pack[i].src].data

CodecResult(i) ==
  compress_stack(SourceData(i), files_to_pack[i].original_size * 2)

\* C5: an entry holds the codec's output, with compressedSize below
\* originalSize, only when compression was requested, the file is not empty
\* and the output is strictly smaller than originalSize; otherwise it holds
\* the raw bytes with compressedSize = originalSize.  So compressedSize =
\* originalSize exactly when the block is raw.
C5_CompressionSentinel ==
  \A i \in 1..Len(files_to_pack) :
    files_to_pack[i].has_data =>
      LET f == files_to_pack[i]
          smaller == /\ compress
                     /\ SourceData(i) # << >>
                     /\ CodecResult(i).ok
                     /\ Len(CodecResult(i).data) < f.original_size
      IN /\ IF smaller
              THEN /\ f.compressed_data = CodecResult(i).data
                   /\ f.compressed_size = Len(CodecResult(i).data)
                   /\ f.compressed_size < f.original_size
              ELSE /\ f.compressed_data = SourceData(i)
                   /\ f.compressed_size = f.original_size
         /\ (f.compressed_size = f.original_size)
              <=> (f.compressed_data = SourceData(i))

\* The codec reports failure for the file of entry i.
CodecFails(i) ==
  compress /\ files_to_pack[i].original_size > 0 /\ ~CodecResult(i).ok

\* The unit of entry i did not fail, and if it returned Ok it stored the raw
\* bytes with compressedSize = originalSize.
FellBackToRaw(i) ==
  /\ files_to_pack[i].result \in {"none", "Ok", "Io"}
  /\ files_to_pack[i].result = "Ok" =>
       /\ files_to_pack[i].has_data
       /\ files_to_pack[i].compressed_data = SourceData(i)
       /\ files_to_pack[i].compressed_size = files_to_pack[i].original_size

\* handle_pack is running or has just returned: handle_unpack, which leaves
\* files_to_pack and packResult alone, has not been called.
BeforeUnpack == pc # "unpack_extract" /\ unpackResult = "none"

\* C6: a failure of the codec is not an error of handle_pack: the unit
\* returns Ok with the raw bytes and compressedSize = originalSize, and the
\* only error the parallel stage returns is a failed read.
C6_CodecFailureNotFatal ==
  BeforeUnpack =>
    /\ \A i \in 1..Len(files_to_pack) : FellBackToRaw(i) \/ ~CodecFails(i)
    /\ (packResult = "Err" /\ files_to_pack # << >>)
         => \E i \in 1..Len(files_to_pack) : files_to_pack[i].result = "Io"

\* An archive was written that holds an entry whose codec run failed.
C6_Witness ==
  /\ packResult = "Ok"
  /\ \E i \in 1..Len(files_to_pack) :
       CodecFails(i) /\ files_to_pack[i].result = "Ok"

\* C7: packing a directory with no files succeeds and writes exactly the
\* four bytes of a header of value 4, an archive of zero entries.
C7_EmptyArchive ==
  (inTree = << >> /\ pc # "pack_start") =>
    /\ packResult = "Ok"
    /\ archive.exists
    /\ Len(archive.bytes) = 4
    /\ StoredHeader = 4
    /\ ParseArchive(archive.bytes) = [ok |-> TRUE, entries |-> << >>]

\* An empty directory was packed and the archive unpacked again.
C7_Witness ==
  inTree = << >> /\ archive.exists /\ pc = "done" /\ unpackResult = "Ok"

\* handle_unpack was called.
UnpackRan == pc = "unpack_extract" \/ unpackResult # "none"

\* The archive ends before the header's metadataEndOffset: in the header or
\* in the metadata block.
EndsBeforeMetadataEnd(bytes) ==
  Len(bytes) < 4 \/ Len(bytes) < ReadU32LE(bytes, 0)

\* C8: on an archive that ends before the header's metadataEndOffset the
\* parse stage returns an error: there is no entry list and no extraction.
C8_TruncatedFailsParse ==
  (UnpackRan /\ EndsBeforeMetadataEnd(arcIn)) =>
    /\ unpackResult = "Err"
    /\ pc = "done"
    /\ file_entries = << >>
    /\ unit = << >>
    /\ outFiles = << >>
    /\ outDirs = {}

\* handle_unpack failed on an archive cut inside its metadata block after a
\* first entry that is complete.
C8_Witness ==
  /\ unpackResult = "Err"
  /\ Len(arcIn) >= 4
  /\ Len(arcIn) < ReadU32LE(arcIn, 0)
  /\ ReadEntry(arcIn, 4).ok

\* The path of a name whose backslashes are read as separators.
FormatPath(name) == SplitPath(name, "windows", 1, << >>)

\* C9: every extracted entry is written at the output root joined with the
\* decrypted name, its backslashes taken as path separators, so a name with
\* k separators is a file k directories below the root.
C9_OutputPath ==
  \A i \in 1..Len(unit) :
    unit[i] = "ok" => FormatPath(file_entries[i].name) \in DOMAIN outFiles

\* The 0-based position of entry i's nameLength byte in the archive.
EntryStart(i) == 4 + MetadataBytes(files_to_pack, i - 1)

\* C10: the nameLength byte of every written entry is the number of
\* encryptedName bytes written after it, the length the layout pass used.
C10_NameLength ==
  packResult = "Ok" =>
    \A i \in 1..Len(files_to_pack) :
      /\ archive.bytes[EntryStart(i) + 1]
           = Len(files_to_pack[i].encrypted_name)
      /\ EntrySize(files_to_pack[i])
           = 1 + archive.bytes[EntryStart(i) + 1] + 12

\* A unit of the compression stage failed.
PackUnitFailed ==
  \E i \in 1..Len(files_to_pack) : files_to_pack[i].result \notin {"none", "Ok"}

\* A task of the extraction stage failed.
UnpackUnitFailed == \E i \in 1..Len(unit) : unit[i] = "err"

\* No call returns Ok after one of its units failed, and a pack with a
\* failed unit has no output archive.
NeverPartialSuccess ==
  /\ PackUnitFailed => packResult # "Ok" /\ ~archive.exists
  /\ (PackUnitFailed /\ pc = "done") => packResult = "Err"
  /\ UnpackUnitFailed => unpackResult # "Ok"
  /\ (UnpackUnitFailed /\ pc = "done") => unpackResult = "Err"

\* A step in which a task fails or handle_unpack returns leaves every file
\* under the output root as it was.
FailureKeepsOutput ==
  (\/ \E i \in 1..Len(unit) :
        i \in DOMAIN unit' /\ unit[i] # "err" /\ unit'[i] = "err"
   \/ unpackResult' # unpackResult)
    => outFiles' = outFiles

\* C11: a failed unit of the compression stage or of the extraction stage
\* makes the whole call return an error, never Ok; the files other
\* extraction tasks wrote stay as they are, and a pack that failed in the
\* compression stage has not created the output archive.
C11_FailFast == [] NeverPartialSuccess /\ [][FailureKeepsOutput]_vars

\* handle_unpack returned an error after one task wrote its file and another
\* failed.
C11_Witness ==
  /\ unpackResult = "Err"
  /\ UnpackUnitFailed
  /\ \E i \in 1..Len(unit) :
       unit[i] = "ok" /\ OutputPath(file_entries[i], host) \in DOMAIN outFiles

\* The offset of entry i differs between this state and the next.
OffsetAssigned(i) ==
  i \in DOMAIN files_to_pack' /\ files_to_pack'[i].offset # files_to_pack[i].offset

\* The step that assigns offsets finds every unit finished with its data and
\* sizes set, leaves the sizes alone and derives each offset from them.
LayoutAfterAllUnits ==
  (\E i \in 1..Len(files_to_pack) : OffsetAssigned(i)) =>
    /\ pc = "pack_compress" /\ pc' = "pack_write"
    /\ \A i \in 1..Len(files_to_pack) :
         /\ files_to_pack[i].result = "Ok"
         /\ files_to_pack[i].has_data
         /\ files_to_pack'[i].compressed_size = files_to_pack[i].compressed_size
         /\ files_to_pack'[i].compressed_data = files_to_pack[i].compressed_data
    /\ \A i \in 2..Len(files_to_pack) :
         files_to_pack'[i].offset
           = AsU32(files_to_pack'[i - 1].offset
                     + files_to_pack[i - 1].compressed_size)

\* A unit sets its sizes only while no offset has been assigned.
UnitsBeforeLayout ==
  (\E i \in 1..Len(files_to_pack) :
     /\ i \in DOMAIN files_to_pack'
     /\ files_to_pack'[i].result # files_to_pack[i].result)
    => /\ pc = "pack_compress"
       /\ \A i \in 1..Len(files_to_pack) : files_to_pack[i].offset = 0

\* C12: under every interleaving of the compression units the layout pass
\* starts only after every unit has finished and set its compressedSize, so
\* no dataOffset is computed from a placeholder size.
C12_PackBarrier == [][LayoutAfterAllUnits /\ UnitsBeforeLayout]_vars

\* The layout pass ran over two files, the first of which holds codec output:
\* the second offset depends on the result of the first unit.
C12_Witness ==
  /\ pc = "pack_write"
  /\ Len(files_to_pack) >= 2
  /\ files_to_pack[1].compressed_size < files_to_pack[1].original_size
  /\ files_to_pack[2].offset
       = files_to_pack[1].offset + files_to_pack[1].compressed_size

\* What the unit of file i stores, computed on its own from the file.
OwnResult(i) ==
  ProcessFile(NewPackFileInfo(inTree[i], i,
                              encrypt_name(NameForEncrypt(inTree[i], host)).bytes),
              inTree[i].data, compress)

\* Entry i is the entry of the i-th discovered file, with that file's name,
\* sizes and data.
KeepsOwnResult(i) ==
  /\ files_to_pack[i].src = i
  /\ files_to_pack[i].relative_path = inTree[i].path
  /\ files_to_pack[i].encrypted_name = OwnResult(i).encrypted_name
  /\ files_to_pack[i].original_size = OwnResult(i).original_size
  /\ files_to_pack[i].compressed_size = OwnResult(i).compressed_size
  /\ files_to_pack[i].compressed_data = OwnResult(i).compressed_data

\* The metadata block on disk holds the entries' names in entry order.
MetadataInEntryOrder ==
  \A i \in 1..Len(files_to_pack) :
    SubSeq(archive.bytes, EntryStart(i) + 2,
           EntryStart(i) + 1 + Len(files_to_pack[i].encrypted_name))
      = files_to_pack[i].encrypted_name

\* The data blocks lie in the file in entry order (an empty block has no
\* place of its own).
DataInEntryOrder ==
  \A i, j \in 1..Len(files_to_pack) :
    (/\ i < j
     /\ files_to_pack[i].compressed_data # << >>
     /\ files_to_pack[j].compressed_data # << >>)
      => files_to_pack[i].offset < files_to_pack[j].offset

\* Every entry of a written archive is the discovered file's own.
EntriesKeepOwnResult ==
  packResult = "Ok" =>
    /\ Len(files_to_pack) = Len(inTree)
    /\ \A i \in 1..Len(files_to_pack) : KeepsOwnResult(i)

\* C13: whatever the completion order of the compression units, the entries
\* of the written metadata block and the data blocks of the data section are
\* both in discovery order, and every entry has its own file's name, sizes
\* and data.
C13_EntryOrder ==
  packResult = "Ok" =>
    /\ Len(files_to_pack) = Len(inTree)
    /\ MetadataInEntryOrder
    /\ DataInEntryOrder
    /\ \A i \in 1..Len(files_to_pack) : KeepsOwnResult(i)

\* The archive bytes of entry w's data block.
OwnBlock(w) ==
  SubSeq(arcIn, file_entries[w].offset + 1,
         file_entries[w].offset + file_entries[w].compressed_size)

\* C14: under every interleaving of the extraction workers a worker's read
\* returns the archive bytes [dataOffset, dataOffset + compressedSize) of its
\* own entry: between a worker's seek and its read no other worker moves
\* the handle it reads from, in the library (a handle per task) and in the
\* binary (seek and read under the lock).
C14_ReadIsolation ==
  \A w \in Workers :
    /\ wpc[w] = "sought" => handle[HandleOf(w)] = file_entries[w].offset
    /\ wpc[w] = "read" => compressed[w] = OwnBlock(w)
    /\ (variant = "binary" /\ wpc[w] \in {"ready", "sought"}) => mutex = w

\* Two library workers read different blocks, the first one's read coming
\* after the second one's seek.
C14_Witness ==
  /\ variant = "library"
  /\ \E w, o \in Workers :
       /\ wpc[w] = "read" /\ wpc[o] = "sought"
       /\ file_entries[w].offset # file_entries[o].offset
       /\ compressed[w] # << >>

\* C15: in a written archive the data block of entry i is exactly the file
\* bytes [dataOffset, dataOffset + compressedSize); the first block starts
\* right after the last metadata entry, every next block starts where the
\* one before it ends, and the file ends with the last block; also when a
\* file size or the running offset does not fit the unsigned 32-bit fields.
C15_ContiguousLayout ==
  packResult = "Ok" =>
    LET n == Len(files_to_pack) IN
    /\ \A i \in 1..n :
         /\ Len(files_to_pack[i].compressed_data)
              = files_to_pack[i].compressed_size
         /\ SubSeq(archive.bytes, files_to_pack[i].offset + 1,
                   files_to_pack[i].offset + files_to_pack[i].compressed_size)
              = files_to_pack[i].compressed_data
    /\ n > 0 => files_to_pack[1].offset = 4 + MetadataBytes(files_to_pack, n)
    /\ \A i \in 1..(n - 1) :
         files_to_pack[i + 1].offset
           = files_to_pack[i].offset + files_to_pack[i].compressed_size
    /\ n > 0 => Len(archive.bytes)
                  = files_to_pack[n].offset + files_to_pack[n].compressed_size

=============================================================================
